---- MODULE Spec2Model ----
(***************************************************************************)
(* showdeps: the dependency index built by findImports, the root deletion  *)
(* and mark-and-sweep of main, and the chain finder of showNReasonsWhy.    *)
(*                                                                         *)
(* Two revisions of the program are in the repository: showdeps.go, and    *)
(* the later revision whose text follows the README (README.md:69-405),    *)
(* which adds -n and the chain finder.  The variable rev says which one    *)
(* runs; every place where the two differ tests it.                        *)
(*                                                                         *)
(* A package path is a sequence of one-character strings, so that          *)
(* isStdlib, matchPattern and sort.Strings work on its characters.         *)
(* The -f flag (file listing) prints file names, not packages, and is      *)
(* left out.                                                               *)
(***************************************************************************)
EXTENDS Integers, Sequences, FiniteSets, TLC

VARIABLES
    rev,          \* "go": showdeps.go; "md": the revision in README.md
    noTestDeps,   \* -T
    all,          \* -a
    std,          \* -stdlib
    from,         \* -from
    why,          \* -why, "" (the empty sequence) when not given
    maxChain,     \* -n
    recur,        \* main's recur (README.md:165)
    showAllWhy,   \* main's showAllWhy (README.md:166)
    Imports,      \* build.Package.Imports of every package
    TestImports,  \* build.Package.TestImports of every package
    XTestImports, \* build.Package.XTestImports of every package
    pkgs,         \* the command line's packages, after gotool.ImportPaths
    rootPkgs,     \* main's rootPkgs, the set of keys mapped to true
    allPkgs,      \* main's allPkgs: package -> list of importers
    pc,           \* where main is
    i,            \* showdeps.go: the index of the loop over pkgs (line 83)
    range,        \* the keys a range loop over a map has still to yield
    stack,        \* the active calls of findImports, innermost last
    marked,       \* main's marked, the set of keys mapped to true
    mstack,       \* the active calls of markImporters, innermost last
    chains,       \* showNReasonsWhy's chains: root -> list of chains
    visited,      \* iterDepChains's visited map, as a set
    dstack,       \* the active calls of iterDepChains1, innermost last
    leaf,         \* the leaf iterDepChains was called with
    called,       \* the chain the last step called f with, else empty
    out,          \* the lines printed, each a sequence of package paths
    run,          \* 1: the first invocation, 2: the second one
    prevOut       \* the lines the first invocation printed

vars == <<rev, noTestDeps, all, std, from, why, maxChain, recur, showAllWhy,
          Imports, TestImports, XTestImports, pkgs, rootPkgs, allPkgs, pc, i,
          range, stack, marked, mstack, chains, visited, dstack, leaf, called,
          out, run, prevOut>>

(***************************************************************************)
(* Strings.                                                                *)
(***************************************************************************)

\* The byte of each character the package paths use.
Byte(c) ==
    CASE c = "." -> 46 [] c = "/" -> 47 [] c = "C" -> 67
      [] c = "a" -> 97 [] c = "b" -> 98 [] c = "c" -> 99 [] c = "d" -> 100
      [] c = "s" -> 115 [] c = "t" -> 116 [] c = "u" -> 117

\* Go's < on strings: bytewise lexicographic.
RECURSIVE StrLess(_, _)
StrLess(a, b) ==
    IF b = <<>> THEN FALSE
    ELSE IF a = <<>> THEN TRUE
    ELSE IF a[1] # b[1] THEN Byte(a[1]) < Byte(b[1])
    ELSE StrLess(Tail(a), Tail(b))

RECURSIVE Insert(_, _)
Insert(s, ss) ==
    IF ss = <<>> THEN <<s>>
    ELSE IF StrLess(ss[1], s) THEN <<ss[1]>> \o Insert(s, Tail(ss))
    ELSE <<s>> \o ss

\* sort.Strings
RECURSIVE SortStrings(_)
SortStrings(ss) ==
    IF ss = <<>> THEN <<>> ELSE Insert(ss[1], SortStrings(Tail(ss)))

\* The keys of a map, sorted: append every key to result, sort.Strings(result).
RECURSIVE SortedKeys(_)
SortedKeys(S) ==
    IF S = {} THEN <<>>
    ELSE LET k == CHOOSE x \in S : \A y \in S : x = y \/ StrLess(x, y)
         IN  <<k>> \o SortedKeys(S \ {k})

Range(ss) == {ss[k] : k \in 1..Len(ss)}

\* strings.SplitN(pkg, "/", 2)[0]
RECURSIVE FirstSegment(_)
FirstSegment(pkg) ==
    IF pkg = <<>> \/ pkg[1] = "/" THEN <<>>
    ELSE <<pkg[1]>> \o FirstSegment(Tail(pkg))

\* isStdlib without its negation.
isStdlibInverted(pkg) == "." \in Range(FirstSegment(pkg))

isStdlib(pkg) == "." \notin Range(FirstSegment(pkg))

\* regexp.QuoteMeta(pattern) with every `\.\.\.` replaced by `.*`: the
\* regexp as a sequence of literal characters and ".*" tokens.
RECURSIVE QuoteReplace(_)
QuoteReplace(p) ==
    IF p = <<>> THEN <<>>
    ELSE IF Len(p) >= 3 /\ p[1] = "." /\ p[2] = "." /\ p[3] = "."
         THEN <<".*">> \o QuoteReplace(SubSeq(p, 4, Len(p)))
         ELSE <<p[1]>> \o QuoteReplace(Tail(p))

\* Whether the whole of name matches the regexp re.
RECURSIVE MatchString(_, _)
MatchString(re, name) ==
    IF re = <<>> THEN name = <<>>
    ELSE IF re[1] = ".*"
         THEN \E k \in 0..Len(name) :
                 MatchString(Tail(re), SubSeq(name, k + 1, Len(name)))
         ELSE name # <<>> /\ name[1] = re[1]
              /\ MatchString(Tail(re), Tail(name))

matchPattern(pattern, name) ==
    LET re == QuoteReplace(pattern)
        n  == Len(re)
    IN  IF n >= 2 /\ re[n - 1] = "/" /\ re[n] = ".*"
        THEN \/ MatchString(SubSeq(re, 1, n - 2), name)    \* (/.*)? absent
             \/ MatchString(re, name)
        ELSE MatchString(re, name)

\* whyMatch != nil
WhyGiven == why # <<>>

whyMatch(name) == matchPattern(why, name)

\* uniq, on a sorted list
RECURSIVE uniqFrom(_, _)
uniqFrom(ss, prev) ==
    IF ss = <<>> THEN <<>>
    ELSE IF ss[1] # prev THEN <<ss[1]>> \o uniqFrom(Tail(ss), ss[1])
    ELSE uniqFrom(Tail(ss), prev)

uniq(ss) == uniqFrom(ss, <<>>)

(***************************************************************************)
(* The packages: what build.Import finds.                                  *)
(***************************************************************************)

Dot  == <<".">>                          \* "."
Main == <<"a", ".", "b">>                \* "a.b", the package in the working directory
Cmd  == <<"c", ".", "d">>                \* "c.d"
LibT == <<"a", ".", "b", "/", "t">>      \* "a.b/t"
LibU == <<"a", ".", "b", "/", "u">>      \* "a.b/u"
StdS == <<"s">>                          \* "s", in the standard library
CgoC == <<"C">>                          \* "C", the cgo pseudo-package

Packages == {Main, Cmd, LibT, LibU, StdS}

\* Those of the standard library, and all the import paths there are.
Stdlib == {StdS, CgoC}
Paths == Packages \cup {CgoC}

\* The ImportPath of build.Import(name, cwd, ...): "." is the package in the
\* working directory, every other name is an import path already.
ImportPath(name) == IF name = Dot THEN Main ELSE name

\* m[k] of a Go map of slices: nil (the empty list) for an absent key.
Lookup(m, k) == IF k \in DOMAIN m THEN m[k] ELSE <<>>

\* m[k] = v
Put(m, k, v) == [x \in DOMAIN m \cup {k} |-> IF x = k THEN v ELSE m[x]]

\* delete(m, k) for every k in ks
Delete(m, ks) == [x \in DOMAIN m \ ks |-> m[x]]

\* addPackages with == for ||.
addPackagesOnlyStd(ss) == {s \in ss : std = isStdlib(s)}

addPackages(ss) == {s \in ss : std \/ ~isStdlib(s)}

\* imports without the test of isRoot.
importsDeepTests(pkg, isRoot) ==
    addPackages(Imports[pkg])
        \cup (IF ~noTestDeps
              THEN addPackages(TestImports[pkg]) \cup addPackages(XTestImports[pkg])
              ELSE {})

imports(pkg, isRoot) ==
    addPackages(Imports[pkg])
        \cup (IF isRoot /\ ~noTestDeps
              THEN addPackages(TestImports[pkg]) \cup addPackages(XTestImports[pkg])
              ELSE {})

\* findImports reads *all in showdeps.go and its parameter recur in README.md.
Recursive == IF rev = "go" THEN all ELSE recur

\* findImports without alreadyDone.
alreadyDoneNever(m, name) == FALSE

\* showdeps.go:168 and README.md:360
alreadyDone(m, name) ==
    IF rev = "go" THEN Lookup(m, name) # <<>> ELSE name \in DOMAIN m

\* The call stack of findImports once the calls whose loop is over have
\* returned.
RECURSIVE Returned(_)
Returned(st) ==
    IF st # <<>> /\ st[Len(st)].todo = {}
    THEN Returned(SubSeq(st, 1, Len(st) - 1))
    ELSE st

\* A call of findImports(packageName, ...) up to the first iteration of its
\* loop: the index and the call stack it leaves.  todo is what the range over
\* imports(...) has still to yield.
findImports(packageName, m, st) ==
    IF packageName = CgoC
    THEN [allPkgs |-> m, stack |-> Returned(st)]
    ELSE LET path == ImportPath(packageName)
         IN  [allPkgs |-> Put(m, path, Lookup(m, path)),
              stack   |-> Returned(Append(st,
                              [pkg  |-> path,
                               todo |-> imports(path, path \in rootPkgs)]))]

flagVars == <<rev, noTestDeps, why, maxChain>>
worldVars == <<Imports, TestImports, XTestImports, pkgs>>
markVars == <<marked, mstack>>
chainVars == <<chains, visited, dstack, leaf, called>>
runVars == <<run, prevOut>>

(***************************************************************************)
(* main, up to the end of graph construction.                              *)
(***************************************************************************)

\* showdeps.go:63-80 and README.md:165-189: the flags -why implies, and
\* rootPkgs.
MainSetup ==
    /\ pc = "main"
    /\ IF rev = "go"
       THEN /\ all' = (WhyGiven \/ all)
            /\ from' = (WhyGiven \/ from)
            /\ UNCHANGED <<recur, showAllWhy>>
       ELSE /\ recur' = (WhyGiven \/ all)
            /\ showAllWhy' = (WhyGiven /\ all)
            /\ from' = ((WhyGiven /\ all) \/ from)
            /\ UNCHANGED all
    /\ std' = ((WhyGiven /\ isStdlib(why)) \/ std)
    /\ rootPkgs' = {ImportPath(pkgs[k]) : k \in 1..Len(pkgs)}
    /\ range' = rootPkgs'
    /\ i' = 1
    /\ pc' = "find"
    /\ UNCHANGED <<flagVars, worldVars, allPkgs, stack, markVars, chainVars,
                   out, runVars>>

\* showdeps.go:83-87: findImports(pkg, ...) for the next pkg of pkgs.
\* README.md:191-195: findImports(pkg, ...) for some pkg of rootPkgs the
\* range has not yielded yet.
FindImportsOfRoot ==
    /\ pc = "find" /\ stack = <<>>
    /\ \E pkg \in (IF rev = "go"
                   THEN {pkgs[k] : k \in {i} \cap (1..Len(pkgs))}
                   ELSE range) :
          LET r == findImports(pkg, allPkgs, stack)
          IN  /\ allPkgs' = r.allPkgs
              /\ stack' = r.stack
              /\ i' = IF rev = "go" THEN i + 1 ELSE i
              /\ range' = IF rev = "go" THEN range ELSE range \ {pkg}
    /\ UNCHANGED <<flagVars, all, std, from, recur, showAllWhy, worldVars,
                   rootPkgs, pc, markVars, chainVars, out, runVars>>

\* One iteration of findImports's loop (showdeps.go:164-175,
\* README.md:356-367), the recursive call included up to the first iteration
\* of its own loop, and the returns of the calls whose loop is over.
FindImportsNext ==
    /\ pc = "find" /\ stack # <<>>
    /\ LET top == stack[Len(stack)]
       IN  \E name \in top.todo :
             LET rest == [stack EXCEPT ![Len(stack)].todo = top.todo \ {name}]
                 done == alreadyDone(allPkgs, name)
                 m    == Put(allPkgs, name, Append(Lookup(allPkgs, name), top.pkg))
                 r    == findImports(name, m, rest)
             IN  IF ~std /\ isStdlib(name)
                 THEN allPkgs' = allPkgs /\ stack' = Returned(rest)
                 ELSE IF Recursive /\ ~done
                 THEN allPkgs' = r.allPkgs /\ stack' = r.stack
                 ELSE allPkgs' = m /\ stack' = Returned(rest)
    /\ UNCHANGED <<flagVars, all, std, from, recur, showAllWhy, worldVars,
                   rootPkgs, pc, i, range, markVars, chainVars, out, runVars>>

\* Graph construction has ended: main's loop over the roots is over.
Constructed ==
    /\ pc = "find" /\ stack = <<>>
    /\ IF rev = "go" THEN i > Len(pkgs) ELSE range = {}

\* The keys main deletes: the command line's names in showdeps.go:89-91, the
\* keys of rootPkgs in README.md:198-200.
DeletedKeys == IF rev = "go" THEN Range(pkgs) ELSE rootPkgs

\* "Delete packages specified directly on the command line."
DeleteRoots ==
    /\ Constructed
    /\ allPkgs' = Delete(allPkgs, DeletedKeys)
    /\ range' = DOMAIN allPkgs'
    /\ pc' = IF WhyGiven THEN "mark" ELSE "sort"
    /\ UNCHANGED <<flagVars, all, std, from, recur, showAllWhy, worldVars,
                   rootPkgs, i, stack, markVars, chainVars, out, runVars>>

(***************************************************************************)
(* Mark and sweep: "Delete all packages that don't directly or indirectly  *)
(* import *why."                                                           *)
(***************************************************************************)

\* The call stack of markImporters once the calls whose loop is over have
\* returned.
RECURSIVE MarkReturned(_)
MarkReturned(st) ==
    IF st # <<>> /\ st[Len(st)].k > Len(Lookup(allPkgs, st[Len(st)].pkg))
    THEN MarkReturned(SubSeq(st, 1, Len(st) - 1))
    ELSE st

\* A call of markImporters(pkg, ...) up to the first iteration of its loop;
\* k is the index of the next element of allPkgs[pkg].
markImporters(pkg, mk, st) ==
    IF pkg \in mk
    THEN [marked |-> mk, mstack |-> MarkReturned(st)]
    ELSE [marked |-> mk \cup {pkg},
          mstack |-> MarkReturned(Append(st, [pkg |-> pkg, k |-> 1]))]

\* One iteration of main's loop (showdeps.go:95-99, README.md:204-208).
MarkRange ==
    /\ pc = "mark" /\ mstack = <<>>
    /\ \E pkg \in range :
          LET r == markImporters(pkg, marked, mstack)
          IN  /\ range' = range \ {pkg}
              /\ IF whyMatch(pkg)
                 THEN marked' = r.marked /\ mstack' = r.mstack
                 ELSE UNCHANGED markVars
    /\ UNCHANGED <<flagVars, all, std, from, recur, showAllWhy, worldVars,
                   rootPkgs, allPkgs, pc, i, stack, chainVars, out, runVars>>

\* One iteration of markImporters's loop.
MarkNext ==
    /\ pc = "mark" /\ mstack # <<>>
    /\ LET top  == mstack[Len(mstack)]
           imps == Lookup(allPkgs, top.pkg)
           r    == markImporters(imps[top.k], marked,
                                 [mstack EXCEPT ![Len(mstack)].k = top.k + 1])
       IN  /\ marked' = r.marked
           /\ mstack' = r.mstack
    /\ UNCHANGED <<flagVars, all, std, from, recur, showAllWhy, worldVars,
                   rootPkgs, allPkgs, pc, i, range, stack, chainVars, out,
                   runVars>>

\* showdeps.go:100-104, README.md:209-213
Sweep ==
    /\ pc = "mark" /\ mstack = <<>> /\ range = {}
    /\ allPkgs' = Delete(allPkgs, DOMAIN allPkgs \ marked)
    /\ pc' = "sort"
    /\ UNCHANGED <<flagVars, all, std, from, recur, showAllWhy, worldVars,
                   rootPkgs, i, range, stack, markVars, chainVars, out,
                   runVars>>

(***************************************************************************)
(* The report.                                                             *)
(***************************************************************************)

\* README.md:225: the chains are printed instead of the packages.
ChainMode == rev = "md" /\ WhyGiven /\ ~showAllWhy

\* The importer lists after README.md:218-221 (sort.Strings(from) for every
\* entry); showdeps.go sorts a list only when it prints it.
SortedFrom(m) == IF rev = "go" THEN m ELSE [x \in DOMAIN m |-> SortStrings(m[x])]

\* The line printed for r (showdeps.go:113-120, README.md:241-247).
Line(m, r) == IF from THEN <<r>> \o uniq(SortStrings(m[r])) ELSE <<r>>

\* showdeps.go:107-121, README.md:217-224 and 229-249
PrintPackages ==
    /\ pc = "sort" /\ ~ChainMode
    /\ allPkgs' = SortedFrom(allPkgs)
    /\ LET result == SortedKeys(DOMAIN allPkgs)
       IN  out' = [k \in 1..Len(result) |-> Line(allPkgs, result[k])]
    /\ pc' = "done"
    /\ UNCHANGED <<flagVars, all, std, from, recur, showAllWhy, worldVars,
                   rootPkgs, i, range, stack, markVars, chainVars, runVars>>

(***************************************************************************)
(* The chain finder (README.md:252-308).                                   *)
(***************************************************************************)

RECURSIVE Reverse(_)
Reverse(ss) == IF ss = <<>> THEN <<>> ELSE Append(Reverse(Tail(ss)), ss[1])

\* The package a call of iterDepChains1 is at: the last of its chain.
Last(chain) == chain[Len(chain)]

\* Whether the callback of showNReasonsWhy drops a chain that ends at pkg.
AtLimit(ch, pkg) == maxChain > 0 /\ Len(Lookup(ch, pkg)) >= maxChain

\* The callback without the copy in reverse.
CallbackNoReverse(chain, ch) ==
    LET pkg == Last(chain)
    IN  IF AtLimit(ch, pkg) THEN ch
        ELSE Put(ch, pkg, Append(Lookup(ch, pkg), chain))

\* The callback of showNReasonsWhy (README.md:260-270): chains after f(chain).
Callback(chain, ch) ==
    LET pkg == Last(chain)
    IN  IF AtLimit(ch, pkg) THEN ch
        ELSE Put(ch, pkg, Append(Lookup(ch, pkg), Reverse(chain)))

\* The call stack of iterDepChains1 once the calls whose loop is over have
\* returned.
RECURSIVE ChainReturned(_)
ChainReturned(st) ==
    IF st # <<>>
       /\ st[Len(st)].k > Len(Lookup(allPkgs, Last(st[Len(st)].chain)))
    THEN ChainReturned(SubSeq(st, 1, Len(st) - 1))
    ELSE st

\* A call of iterDepChains1(chain, visited, ...) up to the first iteration
\* of its loop; k is the index of the next element of allPkgs[pkg].  called
\* is the chain given to f, if f was called.
iterDepChains1(chain, vis, st, ch) ==
    LET pkg == Last(chain)
    IN  IF pkg \in rootPkgs
        THEN [visited |-> vis, dstack |-> ChainReturned(st),
              chains |-> Callback(chain, ch), called |-> chain]
        ELSE IF pkg \in vis
        THEN [visited |-> vis, dstack |-> ChainReturned(st), chains |-> ch,
              called |-> <<>>]
        ELSE [visited |-> vis \cup {pkg},
              dstack  |-> ChainReturned(Append(st, [chain |-> chain, k |-> 1])),
              chains  |-> ch, called |-> <<>>]

\* README.md:217-226: the importer lists are sorted and showNReasonsWhy is
\* called.
StartChains ==
    /\ pc = "sort" /\ ChainMode
    /\ allPkgs' = SortedFrom(allPkgs)
    /\ range' = DOMAIN allPkgs
    /\ chains' = <<>>
    /\ pc' = "why"
    /\ UNCHANGED <<flagVars, all, std, from, recur, showAllWhy, worldVars,
                   rootPkgs, i, stack, markVars, visited, dstack, leaf, called,
                   out, runVars>>

\* One iteration of showNReasonsWhy's loop over allPkgs (README.md:256-271):
\* iterDepChains(pkg, ...) for a pkg that whyMatch accepts.
WhyRange ==
    /\ pc = "why" /\ dstack = <<>>
    /\ \E pkg \in range :
          LET r == iterDepChains1(<<pkg>>, {}, <<>>, chains)
          IN  /\ range' = range \ {pkg}
              /\ IF whyMatch(pkg)
                 THEN /\ leaf' = pkg
                      /\ visited' = r.visited
                      /\ dstack' = r.dstack
                      /\ chains' = r.chains
                      /\ called' = r.called
                 ELSE /\ called' = <<>>
                      /\ UNCHANGED <<leaf, visited, dstack, chains>>
    /\ UNCHANGED <<flagVars, all, std, from, recur, showAllWhy, worldVars,
                   rootPkgs, allPkgs, pc, i, stack, markVars, out, runVars>>

\* One iteration of iterDepChains1's loop (README.md:305-307).
ChainNext ==
    /\ pc = "why" /\ dstack # <<>>
    /\ LET top  == dstack[Len(dstack)]
           imps == Lookup(allPkgs, Last(top.chain))
           r    == iterDepChains1(Append(top.chain, imps[top.k]), visited,
                                  [dstack EXCEPT ![Len(dstack)].k = top.k + 1],
                                  chains)
       IN  /\ visited' = r.visited
           /\ dstack' = r.dstack
           /\ chains' = r.chains
           /\ called' = r.called
    /\ UNCHANGED <<flagVars, all, std, from, recur, showAllWhy, worldVars,
                   rootPkgs, allPkgs, pc, i, range, stack, markVars, leaf, out,
                   runVars>>

\* The chains of the roots in whyRoots, in this order.
RECURSIVE ChainLines(_, _)
ChainLines(ch, whyRoots) ==
    IF whyRoots = <<>> THEN <<>>
    ELSE ch[whyRoots[1]] \o ChainLines(ch, Tail(whyRoots))

\* README.md:272-282
PrintChains ==
    /\ pc = "why" /\ dstack = <<>> /\ range = {}
    /\ out' = ChainLines(chains, SortedKeys(DOMAIN chains))
    /\ called' = <<>>
    /\ pc' = "done"
    /\ UNCHANGED <<flagVars, all, std, from, recur, showAllWhy, worldVars,
                   rootPkgs, allPkgs, i, range, stack, markVars, chains, visited,
                   dstack, leaf, runVars>>

(***************************************************************************)
(* A second invocation on the same packages.                               *)
(***************************************************************************)

\* The state in which main starts, given the flags and the packages.
Fresh ==
    /\ rootPkgs = {} /\ allPkgs = <<>> /\ pc = "main" /\ i = 1 /\ range = {}
    /\ stack = <<>> /\ marked = {} /\ mstack = <<>> /\ chains = <<>>
    /\ visited = {} /\ dstack = <<>> /\ leaf = <<>> /\ called = <<>>
    /\ out = <<>>

\* main starts again.
Restart ==
    /\ rootPkgs' = {} /\ allPkgs' = <<>> /\ pc' = "main" /\ i' = 1
    /\ range' = {} /\ stack' = <<>> /\ marked' = {} /\ mstack' = <<>>
    /\ chains' = <<>> /\ visited' = {} /\ dstack' = <<>> /\ leaf' = <<>>
    /\ called' = <<>> /\ out' = <<>>

\* The program is run again with the flags it ended with and -stdlib.
RunAgainWithStdlib ==
    /\ pc = "done" /\ run = 1 /\ ~ChainMode /\ ~std
    /\ std' = TRUE
    /\ run' = 2 /\ prevOut' = out
    /\ Restart
    /\ UNCHANGED <<flagVars, all, from, recur, showAllWhy, worldVars>>

\* The program is run again with the flags it ended with.
RunAgain ==
    /\ pc = "done" /\ run = 1 /\ ChainMode
    /\ run' = 2 /\ prevOut' = out
    /\ Restart
    /\ UNCHANGED <<flagVars, all, std, from, recur, showAllWhy, worldVars>>

(***************************************************************************)
(* The inputs: the import graph, the command line.                         *)
(***************************************************************************)

MaxEdges == 3
MaxChain == 2

\* The import edges a graph is drawn from, <<importer, imported>>.
ImportEdges ==
    {<<Cmd, Main>>, <<Cmd, LibU>>, <<Main, LibT>>, <<Main, LibU>>,
     <<Main, StdS>>, <<Main, CgoC>>, <<LibU, Main>>, <<LibU, LibT>>,
     <<LibT, LibU>>}
TestEdges == {<<Main, LibU>>}
XTestEdges == {<<LibU, Cmd>>}

Edges == (ImportEdges \X {"Imports"}) \cup (TestEdges \X {"TestImports"})
             \cup (XTestEdges \X {"XTestImports"})

Graphs == {G \in SUBSET Edges : Cardinality(G) <= MaxEdges}

\* The field of the packages that the graph G gives.
Field(G, kind) ==
    [p \in Packages |-> {e[1][2] : e \in {x \in G : x[1][1] = p /\ x[2] = kind}}]

\* The command lines.  README.md ranges over rootPkgs, so that the order of
\* the names and the name given to a root make no difference to it.
CommandLines(r) ==
    IF r = "go"
    THEN {<<Dot>>, <<Main>>, <<Cmd, Main>>, <<Main, Cmd>>, <<StdS>>}
    ELSE {<<Dot>>, <<Cmd, Main>>, <<StdS>>}

Patterns == {LibT, <<"a", ".", "b", "/", ".", ".", ".">>, StdS}

\* The packages the roots reach in G, by imports of any kind.
RECURSIVE Reach(_, _)
Reach(G, S) ==
    LET T == S \cup {e[1][2] : e \in {x \in G : x[1][1] \in S}}
    IN  IF T = S THEN S ELSE Reach(G, T)

\* build.Import is only asked about the packages the roots reach: what the
\* others import is never read, and G leaves it empty.
Relevant(G, roots) == \A e \in G : e[1][1] \in Reach(G, roots)

\* The flags whose value cannot change what the run does have their default:
\* -T where no package has test imports, -a with -why where -why sets it, -n
\* where no chain is printed.  -from, which adds the importers to a line and
\* no line to the report, is as -why sets it; -stdlib is as -why sets it in
\* the first invocation and given in the second.
Init ==
    /\ rev \in {"go", "md"}
    /\ why \in {<<>>} \cup Patterns
    /\ all \in IF rev = "go" /\ why # <<>> THEN {FALSE} ELSE BOOLEAN
    /\ from = FALSE
    /\ maxChain \in IF rev = "md" /\ why # <<>> /\ ~all THEN 0..MaxChain ELSE {1}
    /\ std = FALSE
    /\ recur = FALSE /\ showAllWhy = FALSE
    /\ pkgs \in CommandLines(rev)
    /\ \E G \in Graphs :
          /\ Relevant(G, {ImportPath(pkgs[k]) : k \in 1..Len(pkgs)})
          /\ Imports = Field(G, "Imports")
          /\ TestImports = Field(G, "TestImports")
          /\ XTestImports = Field(G, "XTestImports")
          /\ noTestDeps \in IF \E e \in G : e[2] # "Imports" THEN BOOLEAN ELSE {FALSE}
    /\ run = 1 /\ prevOut = <<>>
    /\ Fresh

Next ==
    \/ MainSetup
    \/ FindImportsOfRoot
    \/ FindImportsNext
    \/ DeleteRoots
    \/ MarkRange
    \/ MarkNext
    \/ Sweep
    \/ PrintPackages
    \/ StartChains
    \/ WhyRange
    \/ ChainNext
    \/ PrintChains
    \/ RunAgainWithStdlib
    \/ RunAgain

Spec == Init /\ [][Next]_vars

(***************************************************************************)
(* What the claims speak of.                                               *)
(***************************************************************************)

AllTestImports(p) == TestImports[p] \cup XTestImports[p]

\* t is an import of p that findImports follows: a non-test import, or a
\* test import of a root when -T is not given.
Follows(p, t) ==
    /\ p \in Packages
    /\ \/ t \in Imports[p]
       \/ p \in rootPkgs /\ ~noTestDeps /\ t \in AllTestImports(p)

\* The edges findImports records: those it follows, without the ones to
\* the standard library unless -stdlib.
Records(p, t) == Follows(p, t) /\ (std \/ t \notin Stdlib)

\* The packages that S imports along recorded edges, directly or not.
RECURSIVE Closure(_)
Closure(S) ==
    LET T == S \cup {t \in Paths : \E p \in S : Records(p, t)}
    IN  IF T = S THEN S ELSE Closure(T)

\* The packages that p imports, directly or transitively.
Deps(p) == Closure({t \in Paths : Records(p, t)})

\* The packages the lines of a report start with.
Reported(lines) == {lines[k][1] : k \in 1..Len(lines)}

ListingDone == pc = "done" /\ ~ChainMode
ChainsDone == pc = "done" /\ ChainMode

\* C1: without -a and -why, every package printed is a direct import of a
\* root (a test import only without -T), and no root is printed.
C1_DirectImportsOnly ==
    (ListingDone /\ ~all /\ ~WhyGiven) =>
        \A p \in Reported(out) :
            /\ \E r \in rootPkgs : Follows(r, p)
            /\ p \notin rootPkgs

\* C2: every edge of the index is a non-test import, or a test import of a
\* root with -T not given; and every key of the index is a root or is
\* reached from the roots along such edges.
C2_TestImportsShallow ==
    /\ \A t \in DOMAIN allPkgs : \A p \in Range(allPkgs[t]) : Follows(p, t)
    /\ DOMAIN allPkgs \subseteq Closure(rootPkgs)

\* A package that is not a root has been expanded, -T is not given, and a
\* test-only import of it is not in the index.
C2_Witness ==
    /\ Constructed /\ Recursive /\ ~noTestDeps
    /\ \E p \in DOMAIN allPkgs \ rootPkgs :
          \E t \in AllTestImports(p) \ Imports[p] : t \notin DOMAIN allPkgs

\* C3 as claimed: without -stdlib, after graph construction no package of
\* the standard library is a key or an importer in the index.
C3_NoStdlibInIndex ==
    (Constructed /\ ~std) =>
        \A t \in DOMAIN allPkgs :
            t \notin Stdlib /\ \A p \in Range(allPkgs[t]) : p \notin Stdlib

\* C3 amended: without -stdlib, the only packages of the standard library
\* that are keys or importers in the index are roots.
C3_OnlyStdlibRoots ==
    (pc # "main" /\ ~std) =>
        \A t \in DOMAIN allPkgs :
            /\ t \in Stdlib => t \in rootPkgs
            /\ \A p \in Range(allPkgs[t]) : p \in Stdlib => p \in rootPkgs

\* Construction has ended without -stdlib, a package in the index imports a
\* package of the standard library, and that one is not in the index.
C3_Witness ==
    /\ Constructed /\ ~std
    /\ \E p \in DOMAIN allPkgs \cap Packages :
          \E t \in Imports[p] : t \in Stdlib /\ t \notin DOMAIN allPkgs

\* The keys of the index once the roots are deleted.
KeysAfterDeletion == Closure(rootPkgs) \ DeletedKeys

\* C4: with -why and -a, a key of the index is kept if and only if it
\* matches, or imports, directly or transitively along the recorded edges
\* (those through roots too), a key of the index that matches.
C4_KeptIffDependsOnMatch ==
    (ListingDone /\ WhyGiven) =>
        Reported(out) =
            {p \in KeysAfterDeletion :
                \/ whyMatch(p)
                \/ \E m \in KeysAfterDeletion \cap Deps(p) : whyMatch(m)}

\* A chain, read from root to leaf: it starts at a root, ends at lf, every
\* package is in the importer list of the next one, and none occurs twice.
ValidChain(c, lf) ==
    /\ c # <<>>
    /\ c[1] \in rootPkgs
    /\ c[Len(c)] = lf
    /\ \A k \in 1..(Len(c) - 1) : c[k] \in Range(Lookup(allPkgs, c[k + 1]))
    /\ \A j, k \in 1..Len(c) : j # k => c[j] # c[k]

\* C5: every chain given to the callback, and every chain printed, starts
\* at a root, ends at the leaf asked about, which matches -why, follows
\* recorded edges and has no package twice.
C5_ChainsValid ==
    /\ called # <<>> => whyMatch(leaf) /\ ValidChain(Reverse(called), leaf)
    /\ ChainsDone =>
          \A k \in 1..Len(out) :
              \E lf \in DOMAIN allPkgs : whyMatch(lf) /\ ValidChain(out[k], lf)

\* A chain of three packages or more is printed from an index in which a
\* package imports itself indirectly.
C5_Witness ==
    /\ ChainsDone
    /\ \E k \in 1..Len(out) : Len(out[k]) >= 3
    /\ \E p \in DOMAIN allPkgs : p \in Deps(p)

\* The lines of the report that start with r.
LinesFrom(r) == {k \in 1..Len(out) : out[k][1] = r}

\* C6: in chain mode a root that imports, directly or transitively, a
\* package that matches -why has at least one chain printed, and at most n
\* when n >= 1; a root that does not has none.
C6_ChainsPerRoot ==
    ChainsDone =>
        \A r \in rootPkgs :
            IF \E m \in Deps(r) : whyMatch(m)
            THEN /\ LinesFrom(r) # {}
                 /\ maxChain >= 1 => Cardinality(LinesFrom(r)) <= maxChain
            ELSE LinesFrom(r) = {}

\* C7: with -n other than 1, any two chains printed differ in a package.
C7_ChainsDiffer ==
    (ChainsDone /\ maxChain # 1) =>
        \A j, k \in 1..Len(out) : j # k => Range(out[j]) # Range(out[k])

\* C8: the second invocation, on the same graph with the same flags, prints
\* the same set of chains as the first.
C8_SameChains ==
    (ChainsDone /\ run = 2) => Range(out) = Range(prevOut)

\* C9: the second invocation, with -stdlib, reports every package that the
\* first, without it, reported.
C9_StdlibMonotonic ==
    (ListingDone /\ run = 2) => Reported(prevOut) \subseteq Reported(out)

\* The second invocation reports the packages of the first and a package
\* of the standard library as well.
C9_Witness ==
    /\ ListingDone /\ run = 2
    /\ Reported(prevOut) # {}
    /\ \E p \in Reported(out) \ Reported(prevOut) : p \in Stdlib

\* More than the length of any importer list of the index.
Weight ==
    LET lens == {Len(allPkgs[p]) : p \in DOMAIN allPkgs}
    IN  1 + (CHOOSE n \in lens \cup {0} : \A m \in lens : m <= n)

\* The iterations left in the active calls of findImports.
RECURSIVE TodoLeft(_)
TodoLeft(st) ==
    IF st = <<>> THEN 0 ELSE Cardinality(st[1].todo) + TodoLeft(Tail(st))

\* What graph construction has left to do: the roots main has still to
\* give to findImports, the paths with no importer, which the recursion may
\* still expand, and the iterations left in the active calls.
FindLeft ==
    LET w     == Cardinality(Paths) + 1
        roots == IF rev = "go" THEN Len(pkgs) + 1 - i ELSE Cardinality(range)
        empty == {p \in Paths : Lookup(allPkgs, p) = <<>>}
    IN  w * roots + w * Cardinality(empty) + TodoLeft(stack)

\* The iterations left in the active calls of markImporters.
RECURSIVE MarkItersLeft(_)
MarkItersLeft(st) ==
    IF st = <<>> THEN 0
    ELSE Len(Lookup(allPkgs, st[1].pkg)) + 1 - st[1].k
             + MarkItersLeft(Tail(st))

\* The iterations left in the active calls of iterDepChains1.
RECURSIVE ChainItersLeft(_)
ChainItersLeft(st) ==
    IF st = <<>> THEN 0
    ELSE Len(Lookup(allPkgs, Last(st[1].chain))) + 1 - st[1].k
             + ChainItersLeft(Tail(st))

\* What marking has left to do: main's loop, the paths not marked, and the
\* iterations left in the active calls.
MarkLeft ==
    Weight * Cardinality(range) + Weight * Cardinality(Paths \ marked)
        + MarkItersLeft(mstack)

\* What the chain search has left to do: showNReasonsWhy's loop, with a new
\* visited map for every leaf, the paths not visited, and the iterations
\* left in the active calls.
ChainLeft ==
    Weight * (Cardinality(Paths) + 1) * Cardinality(range)
        + Weight * Cardinality(Paths \ visited)
        + ChainItersLeft(dstack)

\* The innermost active call of each traversal has an iteration of its loop
\* left, so that the traversal can take a step until main's loop is over.
CanStep ==
    /\ stack # <<>> => stack[Len(stack)].todo # {}
    /\ mstack # <<>> =>
          mstack[Len(mstack)].k <= Len(Lookup(allPkgs, mstack[Len(mstack)].pkg))
    /\ dstack # <<>> =>
          dstack[Len(dstack)].k
              <= Len(Lookup(allPkgs, Last(dstack[Len(dstack)].chain)))

\* C10: graph construction, mark-and-sweep and the chain search each end:
\* a traversal that is not over can take a step, and every step of a
\* traversal leaves this traversal less to do, since a package in the index,
\* marked or visited is not expanded again.
C10_Terminates ==
    /\ []CanStep
    /\ [][/\ (pc = "find" /\ pc' = "find") => FindLeft' < FindLeft
          /\ (pc = "mark" /\ pc' = "mark") => MarkLeft' < MarkLeft
          /\ (pc = "why" /\ pc' = "why") => ChainLeft' < ChainLeft]_vars

\* findImports is at a package that imports one whose call is still active:
\* an import cycle.
C10_Witness ==
    /\ pc = "find" /\ Len(stack) >= 2
    /\ \E j \in 1..(Len(stack) - 1) :
          stack[j].pkg \in stack[Len(stack)].todo

====
